---- MODULE Spec2Model ----
(***************************************************************************)
(* FinanceTrackr PDF parser backend: the layered request handler           *)
(* (api/pdf_routes.py) with its services: validators.validate_pdf_file,    *)
(* pdf_extractor.extract_pdf_text, ai_formatter.format_transactions and    *)
(* transaction_parser.parse_ai_response.                                   *)
(*                                                                         *)
(* Texts of a PDF are kept as sequences of segments [src, off, len]: the   *)
(* len characters of the source string src that start at offset off.  A    *)
(* page's text is one whole segment, the page-break marker is a segment of *)
(* MarkerLen characters, and a slice text[:n] cuts the segment it ends in. *)
(* This keeps the lengths of the program (50000, 20) at their real values. *)
(*                                                                         *)
(* An AI completion is a sequence of tokens: "{" and "}" are the brace     *)
(* characters, "x" is a run of prose without braces, "," a comma, and      *)
(* "T0", "TN", "T5", "TB", "K" are whole JSON members ("transactions": [], *)
(* "transactions": null, "transactions": 5, "transactions": true,          *)
(* "summary": 1); "A:" is the key "accountInfo": whose value, an object,   *)
(* follows.                                                                *)
(***************************************************************************)
EXTENDS Integers, Sequences, FiniteSets, TLC

\* ------------------------------------------------------------------ bounds
\* Most pages a document has.
MaxPages == 2
\* Characters of the short page text "a".
ShortPageLen == 12
\* Characters of the long page text "b": one such page and its marker fill
\* the text budget exactly, a second page exceeds it.
LongPageLen == 49980
\* Most tokens of a completion handed to parse_ai_response on its own.
MaxCompletionLen == 5

\* ------------------------------------------------------- program constants
\* Config.MAX_TEXT_LENGTH
MAX_TEXT_LENGTH == 50000
\* len("\n--- PAGE BREAK ---\n")
MarkerLen == 20
\* Characters of the prompt template before and after the embedded text.
PromptHeadLen == 3525
PromptTailLen == 97

\* ------------------------------------------------------------------- values
\* A Python value that is a str or None: None is NoneVal, a string s is Str(s).
NoneVal == [none |-> TRUE, s |-> << >>]

Str(s) == [none |-> FALSE, s |-> s]

\* Python truthiness of a str-or-None value: None and "" are false.
Truthy(v) == ~v.none /\ v.s # << >>

\* ------------------------------------------------------------------- texts
Seg(src, off, len) == [src |-> src, off |-> off, len |-> len]

\* "\n--- PAGE BREAK ---\n"
PAGE_BREAK == << Seg("marker", 0, MarkerLen) >>

RECURSIVE TextLen(_)
\* len(text)
TextLen(t) == IF t = << >> THEN 0 ELSE Head(t).len + TextLen(Tail(t))

RECURSIVE Slice(_, _)
\* text[:n], for n >= 0
Slice(t, n) ==
    IF t = << >> \/ n <= 0 THEN << >>
    ELSE IF Head(t).len <= n
         THEN << Head(t) >> \o Slice(Tail(t), n - Head(t).len)
         ELSE << Seg(Head(t).src, Head(t).off, n) >>

\* ------------------------------------------------------------------ documents
\* What page.extract_text() returns for a page: None, "", or a text.
PageKinds == {"none", "empty", "a", "b"}

\* page.extract_text()
PageExtractText(p) ==
    CASE p = "none"  -> NoneVal
      [] p = "empty" -> Str(<< >>)
      [] p = "a"     -> Str(<< Seg("a", 0, ShortPageLen) >>)
      [] p = "b"     -> Str(<< Seg("b", 0, LongPageLen) >>)

PageSeqs == UNION { [1..n -> PageKinds] : n \in 0..MaxPages }

\* A document is its bytes, seen through what the two libraries do with them:
\*   encrypted  whether the document really is encrypted
\*   inspect    PyPDF2.PdfReader(bytes): "error" (raises), or is_encrypted
\*              read as "encrypted" / "plain"
\*   decrypt    pdf_reader.decrypt: "normal" (accepts exactly key) or "raises"
\*   key        the password decrypt accepts ('' for a document that has
\*              only an owner password)
\*   open       pdfplumber.open(bytes) and the page loop: "ok", "encerr"
\*              (raises, message names encryption), "othererr" (raises)
\*   openPw     pdfplumber.open(bytes, password=key) and the page loop:
\*              "ok" or "err"
\*   pages      the pages pdfplumber yields when it opens the document
\* A library is a function of the bytes: the same call gives the same result.
\* Fields a document's inspection result makes unobservable are fixed.
Docs ==
    { d \in [ encrypted : BOOLEAN,
              inspect   : {"error", "encrypted", "plain"},
              decrypt   : {"normal", "raises"},
              key       : {"pw1", ""},
              open      : {"ok", "encerr", "othererr"},
              openPw    : {"ok", "err"},
              pages     : PageSeqs ] :
        /\ (d.inspect = "encrypted") => d.encrypted
        /\ (d.inspect # "encrypted")
              => (d.decrypt = "normal" /\ d.openPw = "ok" /\ d.key = "pw1")
        /\ (d.decrypt = "raises") => d.openPw = "ok"
        /\ (d.inspect # "plain") => d.open = "ok"
        /\ (d.inspect = "error") => d.pages = << >>
        /\ (d.inspect = "plain" /\ d.open # "ok") => d.pages = << >>
        /\ (d.inspect = "encrypted" /\ (d.openPw # "ok" \/ d.decrypt # "normal"))
              => d.pages = << >> }

\* request.form.get('password', None): None when the field is absent
NoPassword == "<None>"

Passwords == {NoPassword, "", " ", "pw1", "pw2"}

\* Python truthiness of the password: None and '' are false.
PasswordGiven(password) == password # NoPassword /\ password # ""

\* ------------------------------------------------- services/pdf_extractor.py
\* The result of a helper or of extract_pdf_text: kind "return" with the value
\* returned (a str or None), or kind "raise" with the exception type exc.
\* calls lists the library calls made, in order.
Return(v, calls) == [kind |-> "return", exc |-> "", value |-> v, calls |-> calls]

Raise(exc, calls) == [kind |-> "raise", exc |-> exc, value |-> NoneVal, calls |-> calls]

RECURSIVE PageLoopMarkerIfText(_, _)
\* PageLoop with the marker appended inside the "if text:" branch.
PageLoopMarkerIfText(pages, full_text) ==
    IF pages = << >> THEN full_text
    ELSE LET text == PageExtractText(Head(pages))
         IN  PageLoopMarkerIfText(Tail(pages),
                 IF Truthy(text) THEN full_text \o text.s \o PAGE_BREAK ELSE full_text)

RECURSIVE PageLoopJoin(_, _)
\* PageLoop with the marker put between pages only, as a join would.
PageLoopJoin(pages, full_text) ==
    IF pages = << >> THEN full_text
    ELSE LET text == PageExtractText(Head(pages))
             added == IF Truthy(text) THEN full_text \o text.s ELSE full_text
         IN  PageLoopJoin(Tail(pages),
                 IF Tail(pages) = << >> THEN added ELSE added \o PAGE_BREAK)

RECURSIVE PageLoop(_, _)
\* The loop over pdf.pages of both helpers, from the accumulator full_text:
\*     text = page.extract_text()
\*     if text: full_text += text
\*     full_text += "\n--- PAGE BREAK ---\n"
PageLoop(pages, full_text) ==
    IF pages = << >> THEN full_text
    ELSE LET text == PageExtractText(Head(pages))
         IN  PageLoop(Tail(pages),
                      (IF Truthy(text) THEN full_text \o text.s ELSE full_text)
                          \o PAGE_BREAK)

\* _try_extract_without_password re-raising every exception, the
\* encryption-related ones included.
TryExtractWithoutPasswordStrict(doc) ==
    CASE doc.open = "ok"       -> Return(Str(PageLoop(doc.pages, << >>)), << "plumber.open" >>)
      [] doc.open = "encerr"   -> Raise("Exception", << "plumber.open" >>)
      [] doc.open = "othererr" -> Raise("Exception", << "plumber.open" >>)

\* _try_extract_without_password(pdf_file)
TryExtractWithoutPassword(doc) ==
    CASE doc.open = "ok"       -> Return(Str(PageLoop(doc.pages, << >>)), << "plumber.open" >>)
      [] doc.open = "encerr"   -> Return(NoneVal, << "plumber.open" >>)
      [] doc.open = "othererr" -> Raise("Exception", << "plumber.open" >>)

\* _try_extract_with_password trusting pdfplumber instead of the inspection:
\* a document reported as not encrypted is opened with the password.
TryExtractWithPasswordNoInspection(doc, password) ==
    IF doc.inspect = "error" THEN Return(NoneVal, << "PdfReader" >>)
    ELSE IF doc.inspect # "encrypted"
    THEN IF doc.encrypted /\ password = doc.key /\ doc.openPw = "ok"
         THEN Return(Str(PageLoop(<< "a" >>, << >>)), << "PdfReader", "plumber.open" >>)
         ELSE Return(NoneVal, << "PdfReader", "plumber.open" >>)
    ELSE IF doc.decrypt = "raises" THEN Return(NoneVal, << "PdfReader", "decrypt" >>)
    ELSE IF password # doc.key THEN Return(NoneVal, << "PdfReader", "decrypt" >>)
    ELSE IF doc.openPw # "ok"
         THEN Return(NoneVal, << "PdfReader", "decrypt", "plumber.open" >>)
    ELSE Return(Str(PageLoop(doc.pages, << >>)),
                << "PdfReader", "decrypt", "plumber.open" >>)

\* _try_extract_with_password(pdf_bytes, password); every exception inside it
\* is swallowed and None returned.
TryExtractWithPassword(doc, password) ==
    IF doc.inspect = "error" THEN Return(NoneVal, << "PdfReader" >>)
    ELSE IF doc.inspect # "encrypted" THEN Return(NoneVal, << "PdfReader" >>)
    ELSE IF doc.decrypt = "raises" THEN Return(NoneVal, << "PdfReader", "decrypt" >>)
    ELSE IF password # doc.key THEN Return(NoneVal, << "PdfReader", "decrypt" >>)
    ELSE IF doc.openPw # "ok"
         THEN Return(NoneVal, << "PdfReader", "decrypt", "plumber.open" >>)
    ELSE Return(Str(PageLoop(doc.pages, << >>)),
                << "PdfReader", "decrypt", "plumber.open" >>)

\* STEP 2 testing the helpers' results with "is not None": an empty text is
\* returned to the caller.
ExtractStep2NoneCheck(doc, password, calls) ==
    LET r1 == IF doc.inspect # "encrypted"
              THEN TryExtractWithoutPassword(doc)
              ELSE Return(NoneVal, << >>)
        c1 == calls \o r1.calls
    IN  IF r1.kind = "raise" THEN Raise("PDFExtractionError", c1)
        ELSE IF ~r1.value.none THEN Return(r1.value, c1)
        ELSE IF PasswordGiven(password)
             THEN LET r2 == TryExtractWithPassword(doc, password)
                      c2 == c1 \o r2.calls
                  IN  IF ~r2.value.none THEN Return(r2.value, c2)
                      ELSE Raise("PDFExtractionError", c2)
        ELSE Raise("PDFExtractionError", c1)

\* STEP 2 blaming the password: when one was supplied and no text came out,
\* PDFInvalidPasswordError is raised.
ExtractStep2BlamingPassword(doc, password, calls) ==
    LET r1 == IF doc.inspect # "encrypted"
              THEN TryExtractWithoutPassword(doc)
              ELSE Return(NoneVal, << >>)
        c1 == calls \o r1.calls
    IN  IF r1.kind = "raise" THEN Raise("PDFExtractionError", c1)
        ELSE IF Truthy(r1.value) THEN Return(r1.value, c1)
        ELSE IF PasswordGiven(password)
             THEN LET r2 == TryExtractWithPassword(doc, password)
                      c2 == c1 \o r2.calls
                  IN  IF Truthy(r2.value) THEN Return(r2.value, c2)
                      ELSE Raise("PDFInvalidPasswordError", c2)
        ELSE Raise("PDFExtractionError", c1)

\* The body of extract_pdf_text from STEP 2 on (lines 78-93), after the
\* inspection made the calls so far.
ExtractStep2(doc, password, calls) ==
    LET r1 == IF doc.inspect # "encrypted"
              THEN TryExtractWithoutPassword(doc)
              ELSE Return(NoneVal, << >>)
        c1 == calls \o r1.calls
    IN  IF r1.kind = "raise" THEN Raise("PDFExtractionError", c1)
        ELSE IF Truthy(r1.value) THEN Return(r1.value, c1)
        ELSE IF PasswordGiven(password)
             THEN LET r2 == TryExtractWithPassword(doc, password)
                      c2 == c1 \o r2.calls
                  IN  IF Truthy(r2.value) THEN Return(r2.value, c2)
                      ELSE Raise("PDFExtractionError", c2)
        ELSE Raise("PDFExtractionError", c1)

\* extract_pdf_text without the "if not password: raise" of lines 66-68.
ExtractPdfTextNoPasswordCheck(doc, password) ==
    IF doc.inspect = "error" THEN Raise("PDFExtractionError", << "PdfReader" >>)
    ELSE IF doc.inspect = "encrypted" /\ PasswordGiven(password)
    THEN IF doc.decrypt = "raises"
         THEN Raise("PDFExtractionError", << "PdfReader", "decrypt" >>)
         ELSE IF password # doc.key
         THEN Raise("PDFInvalidPasswordError", << "PdfReader", "decrypt" >>)
         ELSE ExtractStep2(doc, password, << "PdfReader", "decrypt" >>)
    ELSE ExtractStep2(doc, password, << "PdfReader" >>)

\* str.strip() on the passwords of Passwords: " " is the one that is only
\* white space.
Strip(password) == IF password = " " THEN "" ELSE password

\* validate_password(password) of utils/validators.py:
\* password is not None and len(password.strip()) > 0
ValidatePassword(password) == password # NoPassword /\ Strip(password) # ""

\* extract_pdf_text taking a password for given only when validate_password
\* accepts it.
ExtractPdfTextValidatingPassword(doc, password) ==
    IF doc.inspect = "error" THEN Raise("PDFExtractionError", << "PdfReader" >>)
    ELSE IF doc.inspect = "encrypted"
    THEN IF ~ValidatePassword(password)
         THEN Raise("PDFPasswordRequiredError", << "PdfReader" >>)
         ELSE IF doc.decrypt = "raises"
         THEN Raise("PDFExtractionError", << "PdfReader", "decrypt" >>)
         ELSE IF password # doc.key
         THEN Raise("PDFInvalidPasswordError", << "PdfReader", "decrypt" >>)
         ELSE ExtractStep2(doc, password, << "PdfReader", "decrypt" >>)
    ELSE ExtractStep2(doc, password, << "PdfReader" >>)

\* extract_pdf_text(pdf_bytes, password)
ExtractPdfText(doc, password) ==
    IF doc.inspect = "error" THEN Raise("PDFExtractionError", << "PdfReader" >>)
    ELSE IF doc.inspect = "encrypted"
    THEN IF ~PasswordGiven(password)
         THEN Raise("PDFPasswordRequiredError", << "PdfReader" >>)
         ELSE IF doc.decrypt = "raises"
         THEN Raise("PDFExtractionError", << "PdfReader", "decrypt" >>)
         ELSE IF password # doc.key
         THEN Raise("PDFInvalidPasswordError", << "PdfReader", "decrypt" >>)
         ELSE ExtractStep2(doc, password, << "PdfReader", "decrypt" >>)
    ELSE ExtractStep2(doc, password, << "PdfReader" >>)

\* --------------------------------------------------- utils/validators.py
\* str.lower() on one character of the filename alphabet
LowerChar(c) ==
    CASE c = "A" -> "a"
      [] c = "P" -> "p"
      [] c = "D" -> "d"
      [] c = "F" -> "f"
      [] OTHER   -> c

\* str.lower()
Lower(name) == [i \in 1..Len(name) |-> LowerChar(name[i])]

\* str.endswith(suffix)
EndsWith(name, suffix) ==
    /\ Len(name) >= Len(suffix)
    /\ SubSeq(name, Len(name) - Len(suffix) + 1, Len(name)) = suffix

\* Filenames of the uploaded part, as character sequences.
Filenames ==
    { << >>,
      << "a", ".", "p", "d", "f" >>,
      << "A", ".", "P", "D", "F" >>,
      << "a", ".", "t", "x", "t" >>,
      << "a", "p", "d", "f" >>,
      << "a", ".", "p", "d", "f", "x" >>,
      << "a", ".", "p", "d", "f", ".", "t", "x", "t" >> }

\* validate_pdf_file testing ".pdf" in filename.lower() instead of endswith.
ValidatePdfFileContains(hasFile, filename) ==
    IF ~hasFile THEN [valid |-> FALSE, message |-> "No file provided"]
    ELSE IF filename = << >> THEN [valid |-> FALSE, message |-> "No file selected"]
    ELSE IF ~\E i \in 1..Len(filename) :
                 /\ i + 3 <= Len(filename)
                 /\ SubSeq(Lower(filename), i, i + 3) = << ".", "p", "d", "f" >>
         THEN [valid |-> FALSE, message |-> "File must be a PDF"]
    ELSE [valid |-> TRUE, message |-> ""]

\* validate_pdf_file(request): (is_valid, error_message)
ValidatePdfFile(hasFile, filename) ==
    IF ~hasFile THEN [valid |-> FALSE, message |-> "No file provided"]
    ELSE IF filename = << >> THEN [valid |-> FALSE, message |-> "No file selected"]
    ELSE IF ~EndsWith(Lower(filename), << ".", "p", "d", "f" >>)
         THEN [valid |-> FALSE, message |-> "File must be a PDF"]
    ELSE [valid |-> TRUE, message |-> ""]

\* -------------------------------------------------- services/ai_formatter.py
\* _create_formatting_prompt(extracted_text): template + text + template
CreateFormattingPrompt(extracted_text) ==
    << Seg("prompt_head", 0, PromptHeadLen) >> \o extracted_text
        \o << Seg("prompt_tail", 0, PromptTailLen) >>

\* The truncation with the slice computed and not assigned.
TruncateTextDiscarded(extracted_text) == extracted_text

\* The truncation of format_transactions (lines 55-61).
TruncateText(extracted_text) ==
    IF TextLen(extracted_text) > MAX_TEXT_LENGTH
    THEN Slice(extracted_text, MAX_TEXT_LENGTH)
    ELSE extracted_text

\* Completions: token sequences (see the head of the module).
Tokens == {"{", "}", "x", ",", "T0", "TN", "T5", "TB", "K", "A:"}

\* What client.converse does: raises (transport, authentication), or returns
\* a response of one of these shapes; "text" carries the first block's text.
ConverseShapes == {"error", "no_output", "no_message", "no_content", "no_text", "text"}

Converse(shape, text) == [shape |-> shape, text |-> text]

\* The response text format_transactions reads out of the response
\* (lines 83-92): '' unless the first content block has a text.
ResponseText(response) ==
    IF response.shape = "text" THEN response.text ELSE << >>

\* format_transactions without the check of lines 94-96: an empty response
\* text is returned to the caller.
FormatTransactionsNoEmptyCheck(extracted_text, response) ==
    LET prompt == CreateFormattingPrompt(TruncateText(extracted_text))
    IN  IF response.shape = "error"
        THEN [kind |-> "raise", prompt |-> prompt, value |-> << >>]
        ELSE [kind |-> "return", prompt |-> prompt, value |-> ResponseText(response)]

\* format_transactions(extracted_text), given what converse does.
FormatTransactions(extracted_text, response) ==
    LET prompt == CreateFormattingPrompt(TruncateText(extracted_text))
    IN  IF response.shape = "error"
        THEN [kind |-> "raise", prompt |-> prompt, value |-> << >>]
        ELSE IF Len(ResponseText(response)) = 0
        THEN [kind |-> "raise", prompt |-> prompt, value |-> << >>]
        ELSE [kind |-> "return", prompt |-> prompt, value |-> ResponseText(response)]

\* --------------------------------------------- services/transaction_parser.py
\* The search with a lazy star, r'\{[\s\S]*?\}': the match ends at the first
\* "}" after the first "{".
ReSearchBracesLazy(response_text) ==
    LET opens  == { i \in 1..Len(response_text) : response_text[i] = "{" }
        first  == CHOOSE i \in opens : \A k \in opens : i <= k
        closes == { j \in 1..Len(response_text) : response_text[j] = "}" /\ j > first }
        last   == CHOOSE j \in closes : \A k \in closes : j <= k
    IN  IF opens = {} THEN << >>
        ELSE IF closes = {} THEN << >>
        ELSE SubSeq(response_text, first, last)

\* re.search(r'\{[\s\S]*\}', response_text): the leftmost match starts at the
\* first "{" and, the star being greedy, ends at the last "}" after it.
\* << >> stands for no match (a match is never empty).
ReSearchBraces(response_text) ==
    LET opens  == { i \in 1..Len(response_text) : response_text[i] = "{" }
        first  == CHOOSE i \in opens : \A k \in opens : i <= k
        closes == { j \in 1..Len(response_text) : response_text[j] = "}" /\ j > first }
        last   == CHOOSE j \in closes : \A k \in closes : j >= k
    IN  IF opens = {} THEN << >>
        ELSE IF closes = {} THEN << >>
        ELSE SubSeq(response_text, first, last)

\* A decoded JSON value: its type, its len() where it has one, and for an
\* object its members (a dict: a function from keys to values).
EmptyDict == [k \in {} |-> 0]

JsonValue(type, len, obj) == [type |-> type, len |-> len, obj |-> obj]

\* The key and value of a whole-member token.
MemberKey(tok) == IF tok = "K" THEN "summary" ELSE "transactions"

MemberValue(tok) ==
    CASE tok = "T0" -> JsonValue("list", 0, EmptyDict)
      [] tok = "TN" -> JsonValue("null", 0, EmptyDict)
      [] tok = "T5" -> JsonValue("number", 0, EmptyDict)
      [] tok = "TB" -> JsonValue("boolean", 0, EmptyDict)
      [] tok = "K"  -> JsonValue("number", 0, EmptyDict)

JsonFail == [ok |-> FALSE, next |-> 0, value |-> EmptyDict]

RECURSIVE JsonObject(_, _)
RECURSIVE JsonMembers(_, _, _)
\* The JSON decoder on an object that starts at s[i] = "{": [ok, next, value],
\* next the index after its closing brace.
JsonObject(s, i) ==
    IF i + 1 > Len(s) \/ s[i] # "{" THEN JsonFail
    ELSE IF s[i + 1] = "}" THEN [ok |-> TRUE, next |-> i + 2, value |-> EmptyDict]
    ELSE JsonMembers(s, i + 1, EmptyDict)

\* The members of an object from s[i] on, acc the members decoded so far; a
\* repeated key keeps its last value, as a Python dict does.
JsonMembers(s, i, acc) ==
    IF i > Len(s) THEN JsonFail
    ELSE LET m == IF s[i] \in {"T0", "TN", "T5", "TB", "K"}
                  THEN [ok |-> TRUE, next |-> i + 1,
                        value |-> (MemberKey(s[i]) :> MemberValue(s[i])) @@ acc]
                  ELSE IF s[i] = "A:"
                  THEN LET o == JsonObject(s, i + 1)
                       IN  [ok |-> o.ok, next |-> o.next,
                            value |-> ("accountInfo" :>
                                         JsonValue("object", 0, o.value)) @@ acc]
                  ELSE JsonFail
         IN  IF ~m.ok \/ m.next > Len(s) THEN JsonFail
             ELSE IF s[m.next] = "}"
                  THEN [ok |-> TRUE, next |-> m.next + 1, value |-> m.value]
             ELSE IF s[m.next] = ","
                  THEN JsonMembers(s, m.next + 1, m.value)
             ELSE JsonFail

\* json.loads(json_str) on a span that starts with "{": the object must be
\* the whole span (anything after it is "Extra data").
JsonLoads(json_str) ==
    LET o == JsonObject(json_str, 1)
    IN  IF o.ok /\ o.next = Len(json_str) + 1 THEN o ELSE JsonFail

\* Whether len(v) is defined for a decoded value.
HasLen(v) == v.type \in {"list", "object", "string"}

\* parse_ai_response returning an empty dict when it finds no braces.
ParseAiResponseLenient(response_text) ==
    LET json_str == ReSearchBraces(response_text)
        decoded  == JsonLoads(json_str)
    IN  IF json_str = << >>
        THEN [kind |-> "return", exc |-> "", value |-> EmptyDict]
        ELSE IF ~decoded.ok
        THEN [kind |-> "raise", exc |-> "ValueError", value |-> EmptyDict]
        ELSE IF "transactions" \in DOMAIN decoded.value
                /\ ~HasLen(decoded.value["transactions"])
        THEN [kind |-> "raise", exc |-> "TypeError", value |-> EmptyDict]
        ELSE [kind |-> "return", exc |-> "", value |-> decoded.value]

\* parse_ai_response counting len(extracted_data['transactions']): a
\* KeyError when the key is missing.
ParseAiResponseSubscript(response_text) ==
    LET json_str == ReSearchBraces(response_text)
        decoded  == JsonLoads(json_str)
    IN  IF json_str = << >>
        THEN [kind |-> "raise", exc |-> "ValueError", value |-> EmptyDict]
        ELSE IF ~decoded.ok
        THEN [kind |-> "raise", exc |-> "ValueError", value |-> EmptyDict]
        ELSE IF "transactions" \notin DOMAIN decoded.value
        THEN [kind |-> "raise", exc |-> "KeyError", value |-> EmptyDict]
        ELSE IF ~HasLen(decoded.value["transactions"])
        THEN [kind |-> "raise", exc |-> "TypeError", value |-> EmptyDict]
        ELSE [kind |-> "return", exc |-> "", value |-> decoded.value]

\* parse_ai_response(response_text): returns the dict, or raises ValueError
\* (no match, JSONDecodeError) or the TypeError of len() re-raised as is.
ParseAiResponse(response_text) ==
    LET json_str == ReSearchBraces(response_text)
        decoded  == JsonLoads(json_str)
    IN  IF json_str = << >>
        THEN [kind |-> "raise", exc |-> "ValueError", value |-> EmptyDict]
        ELSE IF ~decoded.ok
        THEN [kind |-> "raise", exc |-> "ValueError", value |-> EmptyDict]
        ELSE IF "transactions" \in DOMAIN decoded.value
                /\ ~HasLen(decoded.value["transactions"])
        THEN [kind |-> "raise", exc |-> "TypeError", value |-> EmptyDict]
        ELSE [kind |-> "return", exc |-> "", value |-> decoded.value]

\* ------------------------------------------------------------------ config.py
\* os.getenv of a credential variable: None when unset, else its string.
EnvValues == { NoneVal, Str(<< >>), Str(<< "k" >>) }

\* Config.validate with `and` for `or`: it raises only when both are missing.
ConfigValidateAnd(access_key_id, secret_access_key) ==
    ~Truthy(access_key_id) /\ ~Truthy(secret_access_key)

\* Config.validate(): whether it raises ValueError.
ConfigValidate(access_key_id, secret_access_key) ==
    ~Truthy(access_key_id) \/ ~Truthy(secret_access_key)

\* ------------------------------------------------------------ the service
\* Request slots of the service; the serial specification uses the first.
Slots == {"r1", "r2"}

SerialSlots == {"r1"}

\* Completions the AI gateway returns to a request in flight.
HandlerCompletions ==
    { << >>,
      << "x" >>,
      << "x", ",", "x" >>,
      << "T0" >>,
      << "{" >>,
      << "}", "x", "{" >>,
      << "{", "}" >>,
      << "x", "{", "}", "x" >>,
      << "{", "K", "}" >>,
      << "{", "A:", "{", "T0", "}", "}" >>,
      << "x", "{", "T0", ",", "K", "}" >>,
      << "{", "TN", "}" >>,
      << "x", "{", "K", ",", "T5", "}" >>,
      << "{", "TB", "}", "x" >>,
      << "{", "}", "x", "}" >>,
      << "{", "x", "}" >> }

VARIABLES
    req,            \* per slot: the request in it and the handler's locals
    gatewayUp,      \* whether the AI gateway is reachable
    healthResp,     \* the response of the health check last served, if any
    completion,     \* parse_ai_response on its own: its argument
    parsed,         \* parse_ai_response on its own: its result, once called
    server,         \* the process of main.py: its position and its configuration
    legacy          \* the handler of pdf_api.py: its locals and its response

vars == << req, gatewayUp, healthResp, completion, parsed, server, legacy >>

NoDoc ==
    [encrypted |-> FALSE, inspect |-> "error", decrypt |-> "normal", key |-> "pw1",
     open |-> "ok", openPw |-> "ok", pages |-> << >>]

NoResponse == [status |-> 0, error |-> "", success |-> FALSE, data |-> EmptyDict]

\* jsonify({'error': error, ...}), status
ErrorResponse(status, error) ==
    [status |-> status, error |-> error, success |-> FALSE, data |-> EmptyDict]

\* jsonify({'success': True, 'data': extracted_data}), 200
SuccessResponse(extracted_data) ==
    [status |-> 200, error |-> "", success |-> TRUE, data |-> extracted_data]

NotRun == [kind |-> "none", exc |-> "", value |-> NoneVal, calls |-> << >>]

NotParsed == [kind |-> "none", exc |-> "", value |-> EmptyDict]

\* An empty slot: no request, every local unset.
Idle ==
    [pc |-> "idle", hasFile |-> FALSE, filename |-> << >>, password |-> NoPassword,
     doc |-> NoDoc, steps |-> << >>, extraction |-> NotRun, extracted_text |-> << >>,
     converse |-> Converse("none", << >>), prompt |-> << >>, response_text |-> << >>,
     parse |-> NotParsed, response |-> NoResponse]

\* ------------------------------------------------------------- pdf_api.py
\* The legacy handler, a Flask application of its own with its helpers
\* inline. A helper returns its value or None and raises nothing.

\* max_chars of _format_with_nova_pro
LegacyMaxChars == 50000

\* _try_extract_without_password(pdf_file) of pdf_api.py (lines 191-216);
\* its page loop is the loop of PageLoop.
LegacyTryExtractWithoutPassword(doc) ==
    CASE doc.open = "ok"       -> Return(Str(PageLoop(doc.pages, << >>)), << "plumber.open" >>)
      [] doc.open = "encerr"   -> Return(NoneVal, << "plumber.open" >>)
      [] doc.open = "othererr" -> Raise("Exception", << "plumber.open" >>)

\* _try_extract_with_password(pdf_bytes, password) of pdf_api.py (lines
\* 219-256): every exception inside it is swallowed and None returned.
LegacyTryExtractWithPassword(doc, password) ==
    IF doc.inspect = "error" THEN NoneVal
    ELSE IF doc.inspect # "encrypted" THEN NoneVal
    ELSE IF doc.decrypt = "raises" THEN NoneVal
    ELSE IF password # doc.key THEN NoneVal
    ELSE IF doc.openPw # "ok" THEN NoneVal
    ELSE Str(PageLoop(doc.pages, << >>))

\* _extract_pdf_text(pdf_bytes, password) (lines 144-188): the text, or None
\* on every failure and when neither attempt gave a text.
LegacyExtractPdfText(doc, password) ==
    IF doc.inspect = "error" THEN NoneVal
    ELSE IF doc.inspect = "encrypted" /\ ~PasswordGiven(password) THEN NoneVal
    ELSE IF doc.inspect = "encrypted" /\ doc.decrypt = "raises" THEN NoneVal
    ELSE IF doc.inspect = "encrypted" /\ password # doc.key THEN NoneVal
    ELSE LET r1 == IF doc.inspect # "encrypted"
                   THEN LegacyTryExtractWithoutPassword(doc)
                   ELSE Return(NoneVal, << >>)
         IN  IF r1.kind = "raise" THEN NoneVal
             ELSE IF Truthy(r1.value) THEN r1.value
             ELSE IF PasswordGiven(password)
                     /\ Truthy(LegacyTryExtractWithPassword(doc, password))
             THEN LegacyTryExtractWithPassword(doc, password)
             ELSE NoneVal

\* The legacy branch with its second inspection guarded: bytes that
\* PdfReader cannot read are answered as a failed extraction.
LegacyExtractionErrorResponseGuarded(doc, password) ==
    IF doc.inspect = "error" THEN ErrorResponse(500, "EXTRACTION_FAILED")
    ELSE IF doc.inspect = "encrypted"
    THEN IF ~PasswordGiven(password)
         THEN ErrorResponse(401, "PDF_PASSWORD_REQUIRED")
         ELSE ErrorResponse(401, "PDF_INVALID_PASSWORD")
    ELSE ErrorResponse(500, "EXTRACTION_FAILED")

\* The legacy handler's branch for a falsy extracted text (lines 74-97): it
\* inspects the bytes again, outside the helper's try.
LegacyExtractionErrorResponse(doc, password) ==
    IF doc.inspect = "error" THEN ErrorResponse(500, "PARSE_ERROR")
    ELSE IF doc.inspect = "encrypted"
    THEN IF ~PasswordGiven(password)
         THEN ErrorResponse(401, "PDF_PASSWORD_REQUIRED")
         ELSE ErrorResponse(401, "PDF_INVALID_PASSWORD")
    ELSE ErrorResponse(500, "EXTRACTION_FAILED")

\* The text _format_with_nova_pro embeds in its prompt (lines 269-272).
LegacyTruncateText(extracted_text) ==
    IF TextLen(extracted_text) > LegacyMaxChars
    THEN Slice(extracted_text, LegacyMaxChars)
    ELSE extracted_text

\* _format_with_nova_pro(extracted_text), given what converse does (lines
\* 262-314): the response text, or None when converse raises or the text
\* is empty.
LegacyFormatWithNovaPro(response) ==
    IF response.shape = "error" THEN NoneVal
    ELSE IF Len(ResponseText(response)) = 0 THEN NoneVal
    ELSE Str(ResponseText(response))

\* A dict or None.
NoneDict == [none |-> TRUE, value |-> EmptyDict]

\* _parse_ai_response(response_text) (lines 405-434): the dict, or None when
\* there is no brace span, the span does not decode, or len() raises.
LegacyParseAiResponse(response_text) ==
    LET json_str == ReSearchBraces(response_text)
        decoded  == JsonLoads(json_str)
    IN  IF json_str = << >> THEN NoneDict
        ELSE IF ~decoded.ok THEN NoneDict
        ELSE IF "transactions" \in DOMAIN decoded.value
                /\ ~HasLen(decoded.value["transactions"])
        THEN NoneDict
        ELSE [none |-> FALSE, value |-> decoded.value]

\* The legacy handler before a request.
LegacyIdle ==
    [pc |-> "idle", hasFile |-> FALSE, filename |-> << >>, password |-> NoPassword,
     doc |-> NoDoc, extracted_text |-> NoneVal, embedded |-> << >>,
     converse |-> Converse("none", << >>), response |-> NoResponse]

\* parse_pdf of pdf_api.py (lines 41-140) on a request, with the result of
\* the AI call should it make one: its locals and its response.
LegacyRun(hasFile, filename, password, doc, response) ==
    LET start == [LegacyIdle EXCEPT !.pc = "done", !.hasFile = hasFile,
                                    !.filename = filename, !.password = password,
                                    !.doc = doc]
        text == LegacyExtractPdfText(doc, password)
        afterExtract == [start EXCEPT !.extracted_text = text]
        formatted == LegacyFormatWithNovaPro(response)
        afterFormat == [afterExtract EXCEPT !.embedded = LegacyTruncateText(text.s),
                                            !.converse = response]
        data == LegacyParseAiResponse(formatted.s)
    IN  IF ~hasFile
        THEN [start EXCEPT !.response = ErrorResponse(400, "No file provided")]
        ELSE IF filename = << >>
        THEN [start EXCEPT !.response = ErrorResponse(400, "No file selected")]
        ELSE IF ~Truthy(text)
        THEN [afterExtract EXCEPT !.response = LegacyExtractionErrorResponse(doc, password)]
        ELSE IF ~Truthy(formatted)
        THEN [afterFormat EXCEPT !.response = ErrorResponse(500, "FORMAT_FAILED")]
        ELSE IF data.none \/ DOMAIN data.value = {}
        THEN [afterFormat EXCEPT !.response = ErrorResponse(500, "PARSE_FAILED")]
        ELSE [afterFormat EXCEPT !.response = SuccessResponse(data.value)]

\* The process once it serves requests, with both credentials set.
Listening ==
    [pc |-> "listening", access_key_id |-> Str(<< "k" >>),
     secret_access_key |-> Str(<< "k" >>), routes |-> TRUE, error |-> ""]

\* python main.py starts, with any values of the two credential variables.
Init ==
    /\ req = [r \in Slots |-> Idle]
    /\ gatewayUp \in BOOLEAN
    /\ healthResp = NoResponse
    /\ completion = << >>
    /\ parsed = NotParsed
    /\ \E access_key_id \in EnvValues, secret_access_key \in EnvValues :
          server = [pc |-> "start", access_key_id |-> access_key_id,
                    secret_access_key |-> secret_access_key, routes |-> FALSE,
                    error |-> ""]
    /\ legacy = LegacyIdle

\* main.py line 20 imports api.routes, which imports api.pdf_routes, whose
\* line 27 builds AIFormatterService() and with it the boto3 client from the
\* two credentials. botocore refuses one explicit credential without the
\* other (PartialCredentialsError); whether it does is the library's, so
\* with exactly one of them None the import either raises or goes through.
ImportRoutes ==
    /\ server.pc = "start"
    /\ \/ server' = [server EXCEPT !.pc = "imported"]
       \/ /\ server.access_key_id.none # server.secret_access_key.none
          /\ server' = [server EXCEPT !.pc = "aborted",
                                      !.error = "PartialCredentialsError"]
    /\ UNCHANGED << req, gatewayUp, healthResp, completion, parsed, legacy >>

\* create_app() (main.py lines 26-52): Config.validate(), whose ValueError
\* is logged and re-raised; else CORS and register_routes(app).
CreateApp ==
    /\ server.pc = "imported"
    /\ server' =
          IF ConfigValidate(server.access_key_id, server.secret_access_key)
          THEN [server EXCEPT !.pc = "aborted", !.error = "ValueError"]
          ELSE [server EXCEPT !.pc = "created", !.routes = TRUE]
    /\ UNCHANGED << req, gatewayUp, healthResp, completion, parsed, legacy >>

\* app.run(...) of main.py line 60: the listener binds.
Run ==
    /\ server.pc = "created"
    /\ server' = [server EXCEPT !.pc = "listening"]
    /\ UNCHANGED << req, gatewayUp, healthResp, completion, parsed, legacy >>

\* A POST /api/pdf/parse request arrives: with or without a 'file' part,
\* whose filename and bytes are any of the given ones, and with or without a
\* password field.
ReceiveFrom(r, filenames, passwords, docs) ==
    /\ server.pc = "listening"
    /\ req[r].pc = "idle"
    /\ \/ req' = [req EXCEPT ![r] = [Idle EXCEPT !.pc = "received"]]
       \/ \E filename \in filenames, password \in passwords, doc \in docs :
             req' = [req EXCEPT ![r] =
                        [Idle EXCEPT !.pc = "received", !.hasFile = TRUE,
                                     !.filename = filename, !.password = password,
                                     !.doc = doc]]
    /\ UNCHANGED << gatewayUp, healthResp, completion, parsed, server, legacy >>

Receive(r) == ReceiveFrom(r, Filenames, Passwords, Docs)

\* parse_pdf STEP 1 (lines 65-72): validate the request.
Validate(r) ==
    /\ req[r].pc = "received"
    /\ LET v == ValidatePdfFile(req[r].hasFile, req[r].filename)
           steps == Append(req[r].steps, "validate_pdf_file")
       IN  req' = [req EXCEPT ![r] =
                IF ~v.valid
                THEN [@ EXCEPT !.pc = "done", !.steps = steps,
                               !.response = ErrorResponse(400, v.message)]
                ELSE [@ EXCEPT !.pc = "validated", !.steps = steps]]
    /\ UNCHANGED << gatewayUp, healthResp, completion, parsed, server, legacy >>

\* The except clauses with the base class PDFExtractionError tested first.
ExtractionErrorResponseBaseFirst(exc) ==
    IF exc \in {"PDFPasswordRequiredError", "PDFInvalidPasswordError", "PDFExtractionError"}
    THEN ErrorResponse(500, "EXTRACTION_FAILED")
    ELSE ErrorResponse(500, "PARSE_ERROR")

\* The response parse_pdf gives for what extract_pdf_text raised (lines 83-97).
ExtractionErrorResponse(exc) ==
    CASE exc = "PDFPasswordRequiredError" -> ErrorResponse(401, "PDF_PASSWORD_REQUIRED")
      [] exc = "PDFInvalidPasswordError"  -> ErrorResponse(401, "PDF_INVALID_PASSWORD")
      [] exc = "PDFExtractionError"       -> ErrorResponse(500, "EXTRACTION_FAILED")
      [] OTHER                            -> ErrorResponse(500, "PARSE_ERROR")

\* The extraction step with no return in its error branches: a failed
\* extraction is logged and the handler goes on to the AI call.
ExtractFallsThrough(r) ==
    /\ req[r].pc = "validated"
    /\ LET e == ExtractPdfText(req[r].doc, req[r].password)
           steps == Append(req[r].steps, "extract_pdf_text")
       IN  req' = [req EXCEPT ![r] =
                IF e.kind = "raise"
                THEN [@ EXCEPT !.pc = "extracted", !.steps = steps, !.extraction = e]
                ELSE IF ~Truthy(e.value)
                THEN [@ EXCEPT !.pc = "extracted", !.steps = steps, !.extraction = e]
                ELSE [@ EXCEPT !.pc = "extracted", !.steps = steps, !.extraction = e,
                               !.extracted_text = e.value.s]]
    /\ UNCHANGED << gatewayUp, healthResp, completion, parsed, server, legacy >>

\* parse_pdf STEP 2 (lines 78-103): extract the text.
Extract(r) ==
    /\ req[r].pc = "validated"
    /\ LET e == ExtractPdfText(req[r].doc, req[r].password)
           steps == Append(req[r].steps, "extract_pdf_text")
       IN  req' = [req EXCEPT ![r] =
                IF e.kind = "raise"
                THEN [@ EXCEPT !.pc = "done", !.steps = steps, !.extraction = e,
                               !.response = ExtractionErrorResponse(e.exc)]
                ELSE IF ~Truthy(e.value)
                THEN [@ EXCEPT !.pc = "done", !.steps = steps, !.extraction = e,
                               !.response = ErrorResponse(500, "EXTRACTION_FAILED")]
                ELSE [@ EXCEPT !.pc = "extracted", !.steps = steps, !.extraction = e,
                               !.extracted_text = e.value.s]]
    /\ UNCHANGED << gatewayUp, healthResp, completion, parsed, server, legacy >>

\* What client.converse can do now: it raises when the gateway is
\* unreachable; otherwise it raises (authentication) or returns a response.
ConverseOutcomes ==
    IF ~gatewayUp THEN { Converse("error", << >>) }
    ELSE { Converse(shape, << >>) : shape \in ConverseShapes \ {"text"} }
         \cup { Converse("text", c) : c \in HandlerCompletions }

\* The AI step with the extracted text kept in a module-level variable that
\* every handler assigns and reads: the prompt is built from the text of
\* whichever request has extracted one.
FormatSharedText(r) ==
    /\ req[r].pc = "extracted"
    /\ \E response \in ConverseOutcomes, s \in Slots :
         /\ req[s].extracted_text # << >>
         /\ LET f == FormatTransactions(req[s].extracted_text, response)
                steps == Append(req[r].steps, "format_transactions")
            IN  req' = [req EXCEPT ![r] =
                     IF f.kind = "raise"
                     THEN [@ EXCEPT !.pc = "done", !.steps = steps, !.converse = response,
                                    !.prompt = f.prompt,
                                    !.response = ErrorResponse(500, "FORMAT_FAILED")]
                     ELSE [@ EXCEPT !.pc = "formatted", !.steps = steps,
                                    !.converse = response, !.prompt = f.prompt,
                                    !.response_text = f.value]]
    /\ UNCHANGED << gatewayUp, healthResp, completion, parsed, server, legacy >>

\* The AI step with a retry: when format_transactions raises, the handler
\* calls it again.
FormatRetry(r) ==
    /\ req[r].pc = "extracted"
    /\ \E response \in ConverseOutcomes :
         LET f == FormatTransactions(req[r].extracted_text, response)
             steps == Append(req[r].steps, "format_transactions")
         IN  req' = [req EXCEPT ![r] =
                  IF f.kind = "raise"
                  THEN [@ EXCEPT !.steps = steps, !.converse = response,
                                 !.prompt = f.prompt]
                  ELSE [@ EXCEPT !.pc = "formatted", !.steps = steps,
                                 !.converse = response, !.prompt = f.prompt,
                                 !.response_text = f.value]]
    /\ UNCHANGED << gatewayUp, healthResp, completion, parsed, server, legacy >>

\* parse_pdf STEP 3 (lines 105-113): format with the AI.
Format(r) ==
    /\ req[r].pc = "extracted"
    /\ \E response \in ConverseOutcomes :
         LET f == FormatTransactions(req[r].extracted_text, response)
             steps == Append(req[r].steps, "format_transactions")
         IN  req' = [req EXCEPT ![r] =
                  IF f.kind = "raise"
                  THEN [@ EXCEPT !.pc = "done", !.steps = steps, !.converse = response,
                                 !.prompt = f.prompt,
                                 !.response = ErrorResponse(500, "FORMAT_FAILED")]
                  ELSE [@ EXCEPT !.pc = "formatted", !.steps = steps,
                                 !.converse = response, !.prompt = f.prompt,
                                 !.response_text = f.value]]
    /\ UNCHANGED << gatewayUp, healthResp, completion, parsed, server, legacy >>

\* The handler without its catch-all clause: what is not a ValueError leaves
\* parse_pdf and the framework answers with its own 500 page, which carries
\* no error code.
ParseErrorResponseNoCatchAll(exc) ==
    IF exc = "ValueError"
    THEN ErrorResponse(500, "PARSE_FAILED")
    ELSE ErrorResponse(500, "")

\* The parse step catching every exception of parse_ai_response, not only
\* ValueError.
ParseErrorResponseBroadExcept(exc) == ErrorResponse(500, "PARSE_FAILED")

\* The response parse_pdf gives for what parse_ai_response raised: the
\* except ValueError clause of lines 118-123, else the catch-all clause of
\* lines 136-148.
ParseErrorResponse(exc) ==
    IF exc = "ValueError"
    THEN ErrorResponse(500, "PARSE_FAILED")
    ELSE ErrorResponse(500, "PARSE_ERROR")

\* parse_pdf STEP 4 (lines 115-123, and the outer handler of lines 136-148
\* for what is not a ValueError): parse the completion.
Parse(r) ==
    /\ req[r].pc = "formatted"
    /\ LET p == ParseAiResponse(req[r].response_text)
           steps == Append(req[r].steps, "parse_ai_response")
       IN  req' = [req EXCEPT ![r] =
                IF p.kind = "raise"
                THEN [@ EXCEPT !.pc = "done", !.steps = steps, !.parse = p,
                               !.response = ParseErrorResponse(p.exc)]
                ELSE [@ EXCEPT !.pc = "parsed", !.steps = steps, !.parse = p]]
    /\ UNCHANGED << gatewayUp, healthResp, completion, parsed, server, legacy >>

\* len(extracted_data.get('transactions', [])) of line 125; -1 when len()
\* raises.
TransactionsCount(extracted_data) ==
    IF "transactions" \notin DOMAIN extracted_data THEN 0
    ELSE IF HasLen(extracted_data["transactions"])
    THEN extracted_data["transactions"].len
    ELSE -1

\* The last step with a cancellation path: the client has gone, the handler
\* stops and produces no response.
RespondCancelled(r) ==
    /\ req[r].pc = "parsed"
    /\ req' = [req EXCEPT ![r] = [@ EXCEPT !.pc = "cancelled"]]
    /\ UNCHANGED << gatewayUp, healthResp, completion, parsed, server, legacy >>

\* parse_pdf lines 125-134: count the transactions and respond.
Respond(r) ==
    /\ req[r].pc = "parsed"
    /\ req' = [req EXCEPT ![r] =
             IF TransactionsCount(req[r].parse.value) < 0
             THEN [@ EXCEPT !.pc = "done", !.response = ErrorResponse(500, "PARSE_ERROR")]
             ELSE [@ EXCEPT !.pc = "done",
                            !.response = SuccessResponse(req[r].parse.value)]]
    /\ UNCHANGED << gatewayUp, healthResp, completion, parsed, server, legacy >>

\* The response is sent and the handler's locals are gone.
Finish(r) ==
    /\ req[r].pc = "done"
    /\ req' = [req EXCEPT ![r] = Idle]
    /\ UNCHANGED << gatewayUp, healthResp, completion, parsed, server, legacy >>

\* A health check that reports the gateway's state.
HealthResponseGateway ==
    IF gatewayUp
    THEN [status |-> 200, error |-> "", success |-> TRUE,
          data |-> [status |-> "ok", service |-> "pdf-parser"]]
    ELSE [status |-> 503, error |-> "", success |-> FALSE,
          data |-> [status |-> "degraded", service |-> "pdf-parser"]]

\* health(): jsonify({'status': 'ok', 'service': 'pdf-parser'}), 200
HealthResponse ==
    [status |-> 200, error |-> "", success |-> TRUE,
     data |-> [status |-> "ok", service |-> "pdf-parser"]]

\* A GET /api/pdf/health request is served.
Health ==
    /\ server.pc = "listening"
    /\ healthResp' = HealthResponse
    /\ UNCHANGED << req, gatewayUp, completion, parsed, server, legacy >>

\* The health response is sent.
HealthSent ==
    /\ healthResp # NoResponse
    /\ healthResp' = NoResponse
    /\ UNCHANGED << req, gatewayUp, completion, parsed, server, legacy >>

\* The AI gateway becomes unreachable, or reachable again.
GatewayChange ==
    /\ gatewayUp' = ~gatewayUp
    /\ UNCHANGED << req, healthResp, completion, parsed, server, legacy >>

Next ==
    \/ \E r \in SerialSlots : Receive(r)
    \/ \E r \in SerialSlots : Validate(r)
    \/ \E r \in SerialSlots : Extract(r)
    \/ \E r \in SerialSlots : Format(r)
    \/ \E r \in SerialSlots : Parse(r)
    \/ \E r \in SerialSlots : Respond(r)
    \/ \E r \in SerialSlots : Finish(r)
    \/ Health
    \/ HealthSent
    \/ GatewayChange
    \/ ImportRoutes
    \/ CreateApp
    \/ Run

Spec == Init /\ [][Next]_vars

\* A step of the handler of slot r between the arrival of its request and
\* its response.
HandlerStep(r) ==
    Validate(r) \/ Extract(r) \/ Format(r) \/ Parse(r) \/ Respond(r)

\* The service is up and no request is in flight.
InitLive ==
    /\ req = [r \in Slots |-> Idle]
    /\ gatewayUp \in BOOLEAN
    /\ healthResp = NoResponse
    /\ completion = << >>
    /\ parsed = NotParsed
    /\ server = Listening
    /\ legacy = LegacyIdle

\* The documents of the requests whose termination is followed: every
\* behaviour of the two libraries, on no page or on one page of text.
LiveDocs == { d \in Docs : d.pages \in { << >>, << "a" >> } }

LiveFilenames == { << "a", ".", "p", "d", "f" >>, << "a", ".", "t", "x", "t" >> }

\* One request at a time, from its arrival to its response.
NextLive ==
    \/ \E r \in SerialSlots : ReceiveFrom(r, LiveFilenames, Passwords, LiveDocs)
    \/ \E r \in SerialSlots : Validate(r)
    \/ \E r \in SerialSlots : Extract(r)
    \/ \E r \in SerialSlots : Format(r)
    \/ \E r \in SerialSlots : Parse(r)
    \/ \E r \in SerialSlots : Respond(r)
    \/ \E r \in SerialSlots : Finish(r)
    \/ GatewayChange

\* The service with handlers that go on: parse_pdf is synchronous code, and
\* each library call and the AI call it makes returns or raises, so a
\* handler that can take its next step takes it.
SpecLive ==
    /\ InitLive
    /\ [][NextLive]_vars
    /\ \A r \in SerialSlots : WF_vars(HandlerStep(r))

\* ------------------------------------------------- the two handlers, side by side
\* The request that the layered handler has answered is sent to the legacy
\* handler as well. Where the layered handler called the AI, the legacy
\* handler's call has the same result; where it did not, any result.
LegacyParsePdf(r) ==
    /\ req[r].pc = "done"
    /\ legacy.pc = "idle"
    /\ \E response \in (IF req[r].converse.shape # "none"
                         THEN { req[r].converse }
                         ELSE ConverseOutcomes) :
          legacy' = LegacyRun(req[r].hasFile, req[r].filename, req[r].password,
                              req[r].doc, response)
    /\ UNCHANGED << req, gatewayUp, healthResp, completion, parsed, server >>

\* The service is up and neither handler has a request.
InitEquiv ==
    /\ req = [r \in Slots |-> Idle]
    /\ gatewayUp \in BOOLEAN
    /\ healthResp = NoResponse
    /\ completion = << >>
    /\ parsed = NotParsed
    /\ server = Listening
    /\ legacy = LegacyIdle

\* One request, answered by the layered handler step by step and then by
\* the legacy handler.
NextEquiv ==
    \/ \E r \in SerialSlots : Receive(r)
    \/ \E r \in SerialSlots : Validate(r)
    \/ \E r \in SerialSlots : Extract(r)
    \/ \E r \in SerialSlots : Format(r)
    \/ \E r \in SerialSlots : Parse(r)
    \/ \E r \in SerialSlots : Respond(r)
    \/ \E r \in SerialSlots : LegacyParsePdf(r)

SpecEquiv == InitEquiv /\ [][NextEquiv]_vars

\* ------------------------------------------------- pairs of extractions
\* Two requests with PDF names, any passwords and any documents of
\* LiveDocs, each taken as far as its extraction.
NextPairs ==
    \/ \E r \in Slots :
          ReceiveFrom(r, { << "a", ".", "p", "d", "f" >> }, Passwords, LiveDocs)
    \/ \E r \in Slots : Validate(r)
    \/ \E r \in Slots : Extract(r)

SpecPairs == InitLive /\ [][NextPairs]_vars

\* ----------------------------------------------------- concurrent requests
\* The requests that arrive while another is in flight: a PDF name and
\* another, without a password or with "pw1", a one-page document that is
\* plain or encrypted with key "pw1", or a plain one on which pdfplumber
\* raises an encryption error.
ConcFilenames == { << "a", ".", "p", "d", "f" >>, << "a", ".", "t", "x", "t" >> }

ConcPasswords == { NoPassword, "pw1" }

ConcDocs ==
    { d \in Docs :
        /\ d.inspect # "error"
        /\ d.encrypted = (d.inspect = "encrypted")
        /\ d.decrypt = "normal" /\ d.key = "pw1" /\ d.openPw = "ok"
        /\ d.open # "othererr"
        /\ d.pages \in { << >>, << "a" >>, << "b" >> }
        /\ (d.open = "ok") => d.pages # << >> }

\* The service is up; requests may occupy both slots at once.
InitConc ==
    /\ req = [r \in Slots |-> Idle]
    /\ gatewayUp \in BOOLEAN
    /\ healthResp = NoResponse
    /\ completion = << >>
    /\ parsed = NotParsed
    /\ server = Listening
    /\ legacy = LegacyIdle

\* The handlers of the two slots interleave step by step.
NextConc ==
    \/ \E r \in Slots : ReceiveFrom(r, ConcFilenames, ConcPasswords, ConcDocs)
    \/ \E r \in Slots : Validate(r)
    \/ \E r \in Slots : Extract(r)
    \/ \E r \in Slots : Format(r)
    \/ \E r \in Slots : Parse(r)
    \/ \E r \in Slots : Respond(r)
    \/ \E r \in Slots : Finish(r)
    \/ GatewayChange

SpecConc == InitConc /\ [][NextConc]_vars

\* ------------------------------------------- parse_ai_response on its own
\* Every completion of at most MaxCompletionLen tokens.
Completions == UNION { [1..n -> Tokens] : n \in 0..MaxCompletionLen }

InitParse ==
    /\ req = [r \in Slots |-> Idle]
    /\ gatewayUp = TRUE
    /\ healthResp = NoResponse
    /\ completion \in Completions
    /\ parsed = NotParsed
    /\ server = Listening
    /\ legacy = LegacyIdle

\* parse_ai_response(completion) is called.
ParseCall ==
    /\ parsed = NotParsed
    /\ parsed' = ParseAiResponse(completion)
    /\ UNCHANGED << req, gatewayUp, healthResp, completion, server, legacy >>

NextParse == ParseCall

SpecParse == InitParse /\ [][NextParse]_vars

\* ------------------------------------------------------------------ claims
\* Whether the handler of request q has called the component `step`.
Ran(q, step) == \E i \in 1..Len(q.steps) : q.steps[i] = step

\* A filename whose last four characters are not ".pdf" in any letter case.
NotPdfName(name) ==
    \/ Len(name) < 4
    \/ name[Len(name) - 3] # "."
    \/ name[Len(name) - 2] \notin {"p", "P"}
    \/ name[Len(name) - 1] \notin {"d", "D"}
    \/ name[Len(name)] \notin {"f", "F"}

\* C1: a request whose 'file' field is missing, whose filename is empty or
\* whose filename does not end in ".pdf" (in any letter case) is answered
\* 400 by the validation step, and neither extract_pdf_text nor the AI call
\* nor the parser is invoked for it.
C1_InvalidUploadRejected ==
    \A r \in Slots :
        LET q == req[r]
        IN  (q.pc \notin {"idle", "received"}
             /\ (~q.hasFile \/ q.filename = << >> \/ NotPdfName(q.filename)))
            => /\ q.pc = "done"
               /\ q.response.status = 400
               /\ q.response.error \in
                      {"No file provided", "No file selected", "File must be a PDF"}
               /\ q.steps = << "validate_pdf_file" >>
               /\ q.extraction = NotRun
               /\ q.converse.shape = "none"
               /\ q.parse = NotParsed

\* C1 happens: a request with a file named a.pdf.txt has been answered 400.
C1_Witness ==
    \E r \in Slots :
        /\ req[r].pc = "done"
        /\ req[r].hasFile
        /\ req[r].filename = << "a", ".", "p", "d", "f", ".", "t", "x", "t" >>
        /\ req[r].doc.inspect = "plain"
        /\ req[r].response.status = 400

\* C2 as claimed: every really encrypted document submitted without a
\* password ends in 401 PDF_PASSWORD_REQUIRED, whatever the libraries do.
C2_Original ==
    \A r \in Slots :
        LET q == req[r]
        IN  (Ran(q, "extract_pdf_text") /\ q.doc.encrypted /\ q.password = NoPassword)
            => /\ q.pc = "done"
               /\ q.response = ErrorResponse(401, "PDF_PASSWORD_REQUIRED")

\* C2 amended: every document that the inspection step reports as encrypted
\* (PdfReader raises nothing and is_encrypted is true), submitted without a
\* password, ends in exactly 401 PDF_PASSWORD_REQUIRED, never in
\* EXTRACTION_FAILED, and no decryption or page extraction is attempted.
C2_PasswordRequired ==
    \A r \in Slots :
        LET q == req[r]
        IN  (Ran(q, "extract_pdf_text") /\ q.doc.inspect = "encrypted"
             /\ q.password = NoPassword)
            => /\ q.pc = "done"
               /\ q.extraction.kind = "raise"
               /\ q.extraction.exc = "PDFPasswordRequiredError"
               /\ q.extraction.calls = << "PdfReader" >>
               /\ q.response = ErrorResponse(401, "PDF_PASSWORD_REQUIRED")

\* C2 happens: an encrypted document whose decryption would even raise was
\* submitted without a password and answered 401.
C2_Witness ==
    \E r \in Slots :
        /\ req[r].pc = "done"
        /\ req[r].doc.inspect = "encrypted"
        /\ req[r].doc.decrypt = "raises"
        /\ req[r].password = NoPassword
        /\ req[r].response.status = 401

\* C3: an encrypted document submitted with a password that the decryption
\* step rejects (decrypt is called and returns a false value) ends in exactly
\* 401 PDF_INVALID_PASSWORD; no page extraction and no AI call is performed.
C3_InvalidPassword ==
    \A r \in Slots :
        LET q == req[r]
        IN  (Ran(q, "extract_pdf_text") /\ q.doc.inspect = "encrypted"
             /\ PasswordGiven(q.password) /\ q.doc.decrypt = "normal"
             /\ q.password # q.doc.key)
            => /\ q.pc = "done"
               /\ q.response = ErrorResponse(401, "PDF_INVALID_PASSWORD")
               /\ q.extraction.calls = << "PdfReader", "decrypt" >>
               /\ q.steps = << "validate_pdf_file", "extract_pdf_text" >>
               /\ q.converse.shape = "none"
               /\ q.parse = NotParsed

\* C3 happens: a wrong, non-empty password was rejected for an encrypted
\* document that the right password would have opened.
C3_Witness ==
    \E r \in Slots :
        /\ req[r].pc = "done"
        /\ req[r].doc.inspect = "encrypted"
        /\ req[r].doc.openPw = "ok"
        /\ Len(req[r].doc.pages) = MaxPages
        /\ req[r].password = "pw2"
        /\ req[r].response.error = "PDF_INVALID_PASSWORD"

\* The number of page-break markers appended to a text.
MarkerCount(t) == Cardinality({ i \in 1..Len(t) : t[i].src = "marker" })

\* C4 as claimed: for every encrypted document submitted with the correct
\* password extract_pdf_text raises nothing and returns non-empty text with
\* one marker per page.
C4_Original ==
    \A r \in Slots :
        LET q == req[r]
        IN  (Ran(q, "extract_pdf_text") /\ q.doc.encrypted /\ q.password = q.doc.key)
            => /\ q.extraction.kind = "return"
               /\ Truthy(q.extraction.value)
               /\ MarkerCount(q.extraction.value.s) = Len(q.doc.pages)

\* C4 amended: for every document with at least one page that the inspection
\* step reports as encrypted, submitted with the non-empty password decrypt
\* accepts, and on which neither decrypt nor pdfplumber (open, page
\* extraction) raises, extract_pdf_text raises nothing and returns non-empty
\* text with exactly one marker per page, pages without characters included.
C4_EncryptedExtraction ==
    \A r \in Slots :
        LET q == req[r]
        IN  (Ran(q, "extract_pdf_text") /\ q.doc.inspect = "encrypted"
             /\ q.doc.decrypt = "normal" /\ q.password = q.doc.key
             /\ q.password # ""
             /\ q.doc.openPw = "ok" /\ Len(q.doc.pages) >= 1)
            => /\ q.extraction.kind = "return"
               /\ Truthy(q.extraction.value)
               /\ TextLen(q.extraction.value.s) > 0
               /\ MarkerCount(q.extraction.value.s) = Len(q.doc.pages)

\* C4 happens: an encrypted document of which no page yields a character
\* was extracted with the correct password.
C4_Witness ==
    \E r \in Slots :
        /\ req[r].doc.inspect = "encrypted"
        /\ req[r].password = req[r].doc.key
        /\ req[r].doc.pages = << "none", "empty" >>
        /\ req[r].extraction.kind = "return"
        /\ req[r].pc = "extracted"

\* The index in t of the k-th marker (0 for k = 0).
MarkerIndex(t, k) ==
    IF k = 0 THEN 0
    ELSE CHOOSE i \in 1..Len(t) :
            /\ t[i].src = "marker"
            /\ Cardinality({ j \in 1..i : t[j].src = "marker" }) = k

\* The text of a page as the result holds it: '' when the page yields none.
PageTextOrEmpty(p) ==
    IF p = "a" THEN << Seg("a", 0, ShortPageLen) >>
    ELSE IF p = "b" THEN << Seg("b", 0, LongPageLen) >>
    ELSE << >>

\* C5: every text extract_pdf_text returns, with or without password, is
\* page 1's text, a marker, page 2's text, a marker, ... in the document's
\* page order: it ends with a marker, holds as many markers as the document
\* has pages, and what stands before the k-th marker is the k-th page's text
\* (nothing when the page yields none).
C5_PageOrderAndMarkers ==
    \A r \in Slots :
        LET q == req[r]
            t == q.extraction.value.s
            n == Len(q.doc.pages)
        IN  q.extraction.kind = "return"
            => /\ MarkerCount(t) = n
               /\ n > 0 => t[Len(t)] = Seg("marker", 0, MarkerLen)
               /\ \A k \in 1..n :
                     /\ t[MarkerIndex(t, k)] = Seg("marker", 0, MarkerLen)
                     /\ SubSeq(t, MarkerIndex(t, k - 1) + 1, MarkerIndex(t, k) - 1)
                            = PageTextOrEmpty(q.doc.pages[k])

\* C5 happens without password: two different pages, the first a long one.
C5_Witness ==
    \E r \in Slots :
        /\ req[r].extraction.kind = "return"
        /\ req[r].doc.inspect = "plain"
        /\ req[r].password = NoPassword
        /\ req[r].doc.pages = << "b", "a" >>

\* Whether a token sequence is one JSON object and nothing else.
IsJsonObject(s) == s # << >> /\ s[1] = "{" /\ JsonLoads(s).ok

\* Prose that is not JSON: no part of it is a JSON object.
NonJsonProse(s) ==
    \A i \in 1..Len(s) : \A k \in i..Len(s) : ~IsJsonObject(SubSeq(s, i, k))

C7_NoBraces ==
    \A r \in Slots :
        LET q == req[r]
        IN  (Ran(q, "parse_ai_response")
             /\ \A i \in 1..Len(q.response_text) : q.response_text[i] \notin {"{", "}"})
            => /\ q.parse.kind = "raise"
               /\ q.parse.exc = "ValueError"
               /\ q.pc = "done"
               /\ q.response = ErrorResponse(500, "PARSE_FAILED")

\* C7 happens: the completion was prose only and the request ended.
C7_Witness ==
    \E r \in Slots :
        /\ req[r].pc = "done"
        /\ req[r].response_text = << "x", ",", "x" >>
        /\ Ran(req[r], "parse_ai_response")

\* C8: when the brace span of the completion decodes and the object has no
\* 'transactions' key, parse_ai_response raises nothing and returns the
\* object, the count of line 125 is zero, and the request ends with 200
\* and success true.
C8_MissingTransactions ==
    \A r \in Slots :
        LET q == req[r]
            span == ReSearchBraces(q.response_text)
        IN  (Ran(q, "parse_ai_response") /\ IsJsonObject(span)
             /\ "transactions" \notin DOMAIN JsonLoads(span).value)
            => /\ q.parse.kind = "return"
               /\ q.parse.value = JsonLoads(span).value
               /\ TransactionsCount(q.parse.value) = 0
               /\ q.pc \in {"parsed", "done"}
               /\ q.pc = "done" => q.response = SuccessResponse(JsonLoads(span).value)

\* C8 happens: a request whose completion held only another member ended.
C8_Witness ==
    \E r \in Slots :
        /\ req[r].pc = "done"
        /\ req[r].response_text = << "{", "K", "}" >>
        /\ req[r].response.status = 200

\* Whether text p is the first characters of text t.
IsPrefix(p, t) ==
    /\ Len(p) <= Len(t)
    /\ \A i \in 1..Len(p) :
          /\ p[i].src = t[i].src
          /\ p[i].off = t[i].off
          /\ IF i < Len(p) THEN p[i].len = t[i].len
             ELSE p[i].len >= 1 /\ p[i].len <= t[i].len

\* C9: the text embedded in the prompt is the extracted text when that has
\* at most MAX_TEXT_LENGTH characters, and otherwise exactly its first
\* MAX_TEXT_LENGTH characters.
C9_Truncation ==
    \A r \in Slots :
        LET q == req[r]
            embedded == SubSeq(q.prompt, 2, Len(q.prompt) - 1)
        IN  Ran(q, "format_transactions")
            => /\ Len(q.prompt) >= 2
               /\ q.prompt[1] = Seg("prompt_head", 0, PromptHeadLen)
               /\ q.prompt[Len(q.prompt)] = Seg("prompt_tail", 0, PromptTailLen)
               /\ IF TextLen(q.extracted_text) > MAX_TEXT_LENGTH
                  THEN /\ TextLen(embedded) = MAX_TEXT_LENGTH
                       /\ IsPrefix(embedded, q.extracted_text)
                  ELSE embedded = q.extracted_text

\* C9 happens: a text longer than the maximum was put in a prompt.
C9_Witness ==
    \E r \in Slots :
        /\ Ran(req[r], "format_transactions")
        /\ TextLen(req[r].extracted_text) > MAX_TEXT_LENGTH
        /\ Len(req[r].extracted_text) = 2 * MaxPages

\* C10: every health check is answered 200 with status 'ok' and service
\* 'pdf-parser', whether or not the gateway is reachable and whatever parse
\* requests have done or are doing.
C10_HealthAlwaysOk ==
    healthResp # NoResponse
        => /\ healthResp.status = 200
           /\ healthResp.data = [status |-> "ok", service |-> "pdf-parser"]

\* C10 happens: a health check was answered while the gateway was down and
\* a parse request had just failed at the AI step.
C10_Witness ==
    /\ healthResp # NoResponse
    /\ ~gatewayUp
    /\ \E r \in Slots :
          req[r].pc = "done" /\ req[r].response.error = "FORMAT_FAILED"

\* The (status, error code) pairs parse_pdf answers with.
ResponseKinds ==
    { << 200, "" >>,
      << 400, "No file provided" >>,
      << 400, "No file selected" >>,
      << 400, "File must be a PDF" >>,
      << 401, "PDF_PASSWORD_REQUIRED" >>,
      << 401, "PDF_INVALID_PASSWORD" >>,
      << 500, "EXTRACTION_FAILED" >>,
      << 500, "FORMAT_FAILED" >>,
      << 500, "PARSE_FAILED" >>,
      << 500, "PARSE_ERROR" >> }

\* C11: every response of parse_pdf carries one of the fixed (status, error
\* code) pairs, 200 exactly with success; and a failure that no step's own
\* except clause maps (what parse_ai_response raises that is not a
\* ValueError) is answered 500 'PARSE_ERROR' by the catch-all clause.
C11_ClosedResponseSet ==
    \A r \in Slots :
        LET q == req[r]
        IN  /\ q.pc = "done" =>
                /\ << q.response.status, q.response.error >> \in ResponseKinds
                /\ q.response.success <=> q.response.status = 200
            /\ q.pc # "done" => q.response = NoResponse
            /\ q.parse.kind = "raise" /\ q.parse.exc # "ValueError" =>
                /\ q.pc = "done"
                /\ q.response = ErrorResponse(500, "PARSE_ERROR")

\* A completion whose object has "transactions": null made len() raise a
\* TypeError in the parser, and the request was answered 500 'PARSE_ERROR'.
C11_Witness ==
    \E r \in Slots :
        /\ req[r].pc = "done"
        /\ req[r].parse.kind = "raise"
        /\ req[r].parse.exc = "TypeError"
        /\ req[r].response = ErrorResponse(500, "PARSE_ERROR")

\* The components parse_pdf calls, in the order of its code.
PipelineOrder ==
    << "validate_pdf_file", "extract_pdf_text", "format_transactions", "parse_ai_response" >>

\* Whether the sequence p starts the sequence t.
StartsSeq(p, t) ==
    /\ Len(p) <= Len(t)
    /\ \A i \in 1..Len(p) : p[i] = t[i]

\* The position of a handler in parse_pdf.
Rank(pc) ==
    CASE pc = "idle"      -> 0
      [] pc = "received"  -> 1
      [] pc = "validated" -> 2
      [] pc = "extracted" -> 3
      [] pc = "formatted" -> 4
      [] pc = "parsed"    -> 5
      [] pc = "done"      -> 6

\* What the handler of q has done so far respects the order of the
\* pipeline and the success of each step before the next.
InPipelineOrder(q) ==
    /\ StartsSeq(q.steps, PipelineOrder)
    /\ q.converse.shape # "none" <=> Ran(q, "format_transactions")
    /\ Ran(q, "format_transactions") =>
            /\ q.extraction.kind = "return"
            /\ Truthy(q.extraction.value)
            /\ q.prompt = CreateFormattingPrompt(TruncateText(q.extraction.value.s))
    /\ Ran(q, "parse_ai_response") =>
            /\ q.converse.shape = "text"
            /\ q.converse.text # << >>
            /\ q.response_text = q.converse.text
    /\ q.response.status = 200 =>
            /\ q.steps = PipelineOrder
            /\ q.parse.kind = "return"
            /\ q.response.data = q.parse.value

\* C12: in every step of the service each request moves forward only:
\* its components are called in the order validate, extract, build the
\* prompt and call the AI, parse, each at most once and never after a later
\* one; the AI is called only on a successfully extracted text, the parser
\* only on the text the AI call returned, and 200 is answered only with what
\* the parser returned. A slot goes back to idle only once the response of
\* its request has been produced.
C12_LinearOrder ==
    [][\A r \in Slots :
          /\ InPipelineOrder(req'[r])
          /\ \/ req'[r] = req[r]
             \/ Rank(req'[r].pc) > Rank(req[r].pc)
             \/ req[r].pc = "done" /\ req'[r].pc = "idle"]_vars

\* A request went through all four components in order and was answered 200.
C12_Witness ==
    \E r \in Slots :
        /\ req[r].pc = "done"
        /\ req[r].steps = PipelineOrder
        /\ req[r].response.status = 200

\* The AI call of request q failed or brought no text: converse raised, or
\* its response lacks 'output' or 'message', has an empty content list, a
\* first block without 'text', or an empty text.
NoTextFromAI(q) ==
    \/ q.converse.shape \in {"error", "no_output", "no_message", "no_content", "no_text"}
    \/ q.converse.shape = "text" /\ q.converse.text = << >>

\* C13: whenever the AI call fails or returns a response without text,
\* format_transactions raises and the request ends with 500 'FORMAT_FAILED':
\* the parser is not invoked and the answer is not a 200.
C13_FormatFailed ==
    \A r \in Slots :
        LET q == req[r]
        IN  NoTextFromAI(q) =>
                /\ q.pc = "done"
                /\ q.response = ErrorResponse(500, "FORMAT_FAILED")
                /\ q.steps = << "validate_pdf_file", "extract_pdf_text", "format_transactions" >>
                /\ q.parse = NotParsed
                /\ q.response_text = << >>

\* Each way of bringing no text ended a request in 500 'FORMAT_FAILED'; this
\* one is a response whose first content block has an empty text.
C13_Witness ==
    \E r \in Slots :
        /\ req[r].converse = Converse("text", << >>)
        /\ req[r].response = ErrorResponse(500, "FORMAT_FAILED")

\* How many times the handler of q has called the component `step`.
Calls(q, step) == Cardinality({ i \in 1..Len(q.steps) : q.steps[i] = step })

\* The component whose failure the handler of q has met, "" if none has
\* failed: a rejected upload, an extraction that raised or returned no
\* text, an AI call that raised or brought no text, a parser that raised.
FailedStep(q) ==
    IF q.response.status = 400 THEN "validate_pdf_file"
    ELSE IF q.extraction.kind = "raise"
            \/ (q.extraction.kind = "return" /\ ~Truthy(q.extraction.value))
    THEN "extract_pdf_text"
    ELSE IF NoTextFromAI(q) THEN "format_transactions"
    ELSE IF q.parse.kind = "raise" THEN "parse_ai_response"
    ELSE ""

\* C14: no retries. In every request each component, the AI call and the
\* parser included, is called at most once; and once a component has failed
\* the request is at its error response, that component is the last one
\* called and it was called once.
C14_NoRetries ==
    \A r \in Slots :
        LET q == req[r]
        IN  /\ \A i \in 1..Len(PipelineOrder) : Calls(q, PipelineOrder[i]) <= 1
            /\ FailedStep(q) # "" =>
                    /\ q.pc = "done"
                    /\ q.response.status \in {400, 401, 500}
                    /\ q.steps # << >>
                    /\ q.steps[Len(q.steps)] = FailedStep(q)
                    /\ Calls(q, FailedStep(q)) = 1

\* The AI call of a request raised while the gateway was unreachable, and
\* the request ended after that single call.
C14_Witness ==
    \E r \in Slots :
        /\ req[r].pc = "done"
        /\ req[r].converse.shape = "error"
        /\ Calls(req[r], "format_transactions") = 1
        /\ ~Ran(req[r], "parse_ai_response")

\* The access key id or the secret key is missing: unset, or empty.
MissingCredentials ==
    ~Truthy(server.access_key_id) \/ ~Truthy(server.secret_access_key)

\* With a credential missing the process never gets past create_app: no
\* routes are registered, the listener is not bound, no request is served.
NeverServes ==
    MissingCredentials =>
        /\ server.pc \in {"start", "imported", "aborted"}
        /\ ~server.routes
        /\ \A r \in Slots : req[r] = Idle
        /\ healthResp = NoResponse

\* C15 as stated: with a credential missing, startup never serves and what
\* aborts it is the ValueError of Config.validate, re-raised by create_app.
C15_Original ==
    /\ NeverServes
    /\ MissingCredentials /\ server.pc = "aborted" => server.error = "ValueError"

\* C15: when the access key id or the secret key is missing, startup aborts
\* before routes are registered and before the listener binds, and no
\* request is ever served: create_app is left by the ValueError of
\* Config.validate, unless the import of the routes has already failed in
\* building the AI client, which happens only with exactly one of the two
\* variables unset.
C15_StartupAborts ==
    /\ NeverServes
    /\ MissingCredentials /\ server.pc = "aborted" =>
            \/ server.error = "ValueError"
            \/ /\ server.error = "PartialCredentialsError"
               /\ server.access_key_id.none # server.secret_access_key.none
    /\ server.pc = "aborted" => MissingCredentials

\* The secret key was set to the empty string: Config.validate raised and
\* create_app re-raised.
C15_Witness ==
    /\ server.pc = "aborted"
    /\ server.error = "ValueError"
    /\ server.access_key_id = Str(<< "k" >>)
    /\ server.secret_access_key = Str(<< >>)

\* What parse_pdf computes for the request of q when it runs alone, given
\* the same upload, password, document and AI result: the four components
\* applied one after the other.
Alone(q) ==
    LET v == ValidatePdfFile(q.hasFile, q.filename)
        e == ExtractPdfText(q.doc, q.password)
        f == FormatTransactions(e.value.s, q.converse)
        p == ParseAiResponse(f.value)
        none == [extraction |-> NotRun, prompt |-> << >>, parse |-> NotParsed,
                 response |-> NoResponse]
    IN  IF ~v.valid
        THEN [none EXCEPT !.response = ErrorResponse(400, v.message)]
        ELSE IF e.kind = "raise"
        THEN [none EXCEPT !.extraction = e, !.response = ExtractionErrorResponse(e.exc)]
        ELSE IF ~Truthy(e.value)
        THEN [none EXCEPT !.extraction = e,
                          !.response = ErrorResponse(500, "EXTRACTION_FAILED")]
        ELSE IF f.kind = "raise"
        THEN [none EXCEPT !.extraction = e, !.prompt = f.prompt,
                          !.response = ErrorResponse(500, "FORMAT_FAILED")]
        ELSE IF p.kind = "raise"
        THEN [none EXCEPT !.extraction = e, !.prompt = f.prompt, !.parse = p,
                          !.response = ParseErrorResponse(p.exc)]
        ELSE [none EXCEPT !.extraction = e, !.prompt = f.prompt, !.parse = p,
                          !.response = SuccessResponse(p.value)]

\* What the handler of q has computed.
Computed(q) ==
    [extraction |-> q.extraction, prompt |-> q.prompt, parse |-> q.parse,
     response |-> q.response]

\* C16: in every step of every interleaving of two requests, a request that
\* has its response has the response, and the extraction, prompt and parse
\* results behind it, that it would have alone with the same upload,
\* password, document and AI result; and a step of one request's handler
\* leaves the other request's state as it was.
C16_Independent ==
    [][/\ \A r \in Slots :
             req'[r].pc = "done" => Computed(req'[r]) = Alone(req'[r])
       /\ \A r1, r2 \in Slots :
             r1 # r2 /\ req'[r1] # req[r1] => req'[r2] = req[r2]]_vars

\* Two requests with different documents were in flight together and both
\* were answered 200.
C16_Witness ==
    /\ req["r1"].pc = "done" /\ req["r1"].response.status = 200
    /\ req["r2"].pc = "done" /\ req["r2"].response.status = 200
    /\ req["r1"].extracted_text # req["r2"].extracted_text

\* C17: the two-attempt policy. When the inspection reports a document as
\* not encrypted and the password-less attempt yields no text without
\* raising (pdfplumber fails with an encryption-related error, or there is
\* no text), extract_pdf_text makes the attempt with the password exactly
\* when one was supplied; that attempt re-inspects the document and yields
\* nothing, so extract_pdf_text raises PDFExtractionError and the request
\* ends with 500 'EXTRACTION_FAILED' before any AI call.
C17_TwoAttempts ==
    \A r \in Slots :
        LET q == req[r]
        IN  /\ Ran(q, "extract_pdf_text")
            /\ q.doc.inspect = "plain"
            /\ \/ q.doc.open = "encerr"
               \/ q.doc.open = "ok" /\ q.doc.pages = << >>
            => /\ q.extraction.calls =
                      IF PasswordGiven(q.password)
                      THEN << "PdfReader", "plumber.open", "PdfReader" >>
                      ELSE << "PdfReader", "plumber.open" >>
               /\ q.extraction.kind = "raise"
               /\ q.extraction.exc = "PDFExtractionError"
               /\ q.pc = "done"
               /\ q.response = ErrorResponse(500, "EXTRACTION_FAILED")
               /\ ~Ran(q, "format_transactions")

\* pdfplumber raised an encryption error on a document reported as plain,
\* a password was supplied, the second attempt was made and the request
\* ended with 500 'EXTRACTION_FAILED'.
C17_Witness ==
    \E r \in Slots :
        /\ req[r].doc.inspect = "plain"
        /\ req[r].doc.open = "encerr"
        /\ PasswordGiven(req[r].password)
        /\ req[r].extraction.calls = << "PdfReader", "plumber.open", "PdfReader" >>
        /\ req[r].response = ErrorResponse(500, "EXTRACTION_FAILED")

\* Whether some "{" of the token sequence s is followed by a later "}".
HasBraceSpan(s) ==
    \E i \in 1..Len(s) : \E k \in (i + 1)..Len(s) : s[i] = "{" /\ s[k] = "}"

\* The tokens of s from its first "{" to its last "}".
WidestSpan(s) ==
    LET first == CHOOSE i \in 1..Len(s) :
                    s[i] = "{" /\ \A j \in 1..(i - 1) : s[j] # "{"
        last  == CHOOSE k \in 1..Len(s) :
                    s[k] = "}" /\ \A j \in (k + 1)..Len(s) : s[j] # "}"
    IN  SubSeq(s, first, last)

\* C18: parse_ai_response decodes exactly the span from the first "{" to
\* the last "}" of the completion: it returns, with what that span decodes
\* to, if and only if there is such a span and it is a valid JSON document;
\* otherwise (no "{" followed by a later "}", or a span that does not
\* decode) it raises the parse error, ValueError.
C18_Original ==
    parsed # NotParsed =>
        LET valid == HasBraceSpan(completion) /\ JsonLoads(WidestSpan(completion)).ok
        IN  /\ parsed.kind = "return" <=> valid
            /\ valid => parsed.value = JsonLoads(WidestSpan(completion)).value
            /\ ~valid => parsed.kind = "raise" /\ parsed.exc = "ValueError"

\* C18 but for one case: when the widest span decodes to an object whose
\* 'transactions' member has no length, parse_ai_response raises the
\* TypeError of len(); in every other case it behaves as C18 states.
C18_ExceptUnsizedTransactions ==
    parsed # NotParsed =>
        LET valid == HasBraceSpan(completion) /\ JsonLoads(WidestSpan(completion)).ok
            obj   == JsonLoads(WidestSpan(completion)).value
            sized == "transactions" \in DOMAIN obj => HasLen(obj["transactions"])
        IN  IF valid /\ ~sized
            THEN parsed.kind = "raise" /\ parsed.exc = "TypeError"
            ELSE /\ parsed.kind = "return" <=> valid
                 /\ valid => parsed.value = obj
                 /\ ~valid => parsed.kind = "raise" /\ parsed.exc = "ValueError"

\* Two separate objects: the widest span runs from the first "{" to the last
\* "}", does not decode, and the parser raised ValueError.
C18_Witness ==
    /\ completion = << "{", "}", "x", "{", "}" >>
    /\ parsed.kind = "raise"
    /\ parsed.exc = "ValueError"

\* A document of zero bytes: PyPDF2.PdfReader raises on it.
ZeroByte(d) == d.inspect = "error" /\ ~d.encrypted

\* A document that opens and has no pages.
ZeroPage(d) ==
    /\ d.inspect # "error"
    /\ d.pages = << >>
    /\ d.inspect = "plain" => d.open = "ok"
    /\ d.inspect = "encrypted" => d.decrypt = "normal" /\ d.openPw = "ok"

\* The request of q ended as ExtractionFailed: extract_pdf_text raised
\* PDFExtractionError, the response is 500 'EXTRACTION_FAILED' and the AI
\* was not called.
EndedExtractionFailed(q) ==
    /\ q.extraction.kind = "raise"
    /\ q.extraction.exc = "PDFExtractionError"
    /\ q.pc = "done"
    /\ q.response = ErrorResponse(500, "EXTRACTION_FAILED")
    /\ ~Ran(q, "format_transactions")
    /\ q.converse.shape = "none"

\* C19 as stated: every zero-page or zero-byte PDF ends as ExtractionFailed.
C19_Original ==
    \A r \in Slots :
        LET q == req[r]
        IN  Ran(q, "extract_pdf_text") /\ (ZeroByte(q.doc) \/ ZeroPage(q.doc))
            => EndedExtractionFailed(q)

\* C19: a zero-byte PDF, and a zero-page PDF that the inspection reports as
\* not encrypted or that comes with the non-empty password its decryption
\* accepts, ends as ExtractionFailed: PDFExtractionError, never a successful
\* empty text, 500 'EXTRACTION_FAILED', no AI call. A zero-page PDF reported
\* as encrypted ends in 401 'PDF_PASSWORD_REQUIRED' without a password (or
\* with an empty one) and in 401 'PDF_INVALID_PASSWORD' with a password its
\* decryption rejects; in neither case is the AI called.
C19_EmptyDocument ==
    \A r \in Slots :
        LET q == req[r]
            d == q.doc
        IN  Ran(q, "extract_pdf_text") /\ (ZeroByte(d) \/ ZeroPage(d))
            => /\ ~Ran(q, "format_transactions")
               /\ q.extraction.kind = "raise"
               /\ IF d.inspect # "encrypted" THEN EndedExtractionFailed(q)
                  ELSE IF ~PasswordGiven(q.password)
                  THEN q.response = ErrorResponse(401, "PDF_PASSWORD_REQUIRED")
                  ELSE IF q.password # d.key
                  THEN q.response = ErrorResponse(401, "PDF_INVALID_PASSWORD")
                  ELSE EndedExtractionFailed(q)

\* A plain PDF without pages was opened, gave no text, and the request
\* ended as ExtractionFailed.
C19_Witness ==
    \E r \in Slots :
        /\ req[r].doc.inspect = "plain"
        /\ ZeroPage(req[r].doc)
        /\ req[r].extraction.calls = << "PdfReader", "plumber.open" >>
        /\ EndedExtractionFailed(req[r])

\* The terminal states of a request: Responded (200) and Errored.
Terminal(q) ==
    /\ q.pc = "done"
    /\ \/ q.response.status = 200 /\ q.response.success
       \/ q.response.status \in {400, 401, 500} /\ ~q.response.success

\* C20: every request terminates. A request that has arrived eventually
\* reaches a terminal state, Responded (200) or Errored (400, 401, 500);
\* it is in a terminal state exactly when it has a response; and its
\* response, once produced, is not replaced by another: it stays as it is
\* until it is sent.
C20_Terminates ==
    /\ \A r \in SerialSlots : (req[r].pc # "idle") ~> Terminal(req[r])
    /\ [][\A r \in Slots :
             /\ req'[r].response # NoResponse <=> Terminal(req'[r])
             /\ req[r].response # NoResponse =>
                    \/ req'[r] = req[r]
                    \/ req'[r] = Idle]_vars

\* A request reached Responded and another run reached Errored; here, the
\* one that went through every step and was answered 200.
C20_Witness ==
    \E r \in Slots :
        /\ Terminal(req[r])
        /\ req[r].response.status = 200
        /\ Len(req[r].steps) = 4

\* The legacy handler has answered the request the layered handler of slot
\* r has answered.
BothAnswered(r) == req[r].pc = "done" /\ legacy.pc = "done"

\* What the claim compares: status, error code, success flag and payload.
SameAnswer(a, b) ==
    /\ a.status = b.status
    /\ a.error = b.error
    /\ a.success = b.success
    /\ a.data = b.data

C22_PasswordAttemptFutile ==
    \A r \in Slots :
        LET q == req[r]
        IN  /\ Ran(q, "extract_pdf_text")
            /\ q.doc.inspect = "plain"
            /\ q.doc.open = "encerr"
            => /\ EndedExtractionFailed(q)
               /\ q.extraction.calls \in
                      { << "PdfReader", "plumber.open" >>,
                        << "PdfReader", "plumber.open", "PdfReader" >> }
               /\ PasswordGiven(q.password) =>
                      q.extraction.calls[Len(q.extraction.calls)] = "PdfReader"

\* An encrypted document that the inspection reports as plain was sent
\* with the password that opens it, and the request ended as
\* ExtractionFailed.
C22_Witness ==
    \E r \in Slots :
        /\ req[r].doc.encrypted
        /\ req[r].doc.inspect = "plain"
        /\ req[r].doc.open = "encerr"
        /\ req[r].password = req[r].doc.key
        /\ EndedExtractionFailed(req[r])

\* Whether extract_pdf_text called pdf_reader.decrypt for the request of q.
DecryptAttempted(q) ==
    \E i \in 1..Len(q.extraction.calls) : q.extraction.calls[i] = "decrypt"

\* C23: an empty password is no password. For a document that the
\* inspection reports as encrypted, a request with password '' ends, like
\* one without the field, in 401 'PDF_PASSWORD_REQUIRED' with no decryption
\* attempted, while every non-empty password, one of white space only
\* included, is passed to decrypt as it is. validate_password, which
\* rejects white space, has no part in it: the handler calls the four
\* pipeline components only.
C23_EmptyPasswordIsNone ==
    \A r \in Slots :
        LET q == req[r]
        IN  /\ \A i \in 1..Len(q.steps) : q.steps[i] # "validate_password"
            /\ (Ran(q, "extract_pdf_text") /\ q.doc.inspect = "encrypted") =>
                   /\ q.password \in {NoPassword, ""} =>
                          /\ q.response = ErrorResponse(401, "PDF_PASSWORD_REQUIRED")
                          /\ q.extraction.calls = << "PdfReader" >>
                   /\ q.password \notin {NoPassword, ""} =>
                          /\ DecryptAttempted(q)
                          /\ q.response # ErrorResponse(401, "PDF_PASSWORD_REQUIRED")
                   /\ (q.password = " " /\ q.doc.decrypt = "normal") =>
                          /\ ~ValidatePassword(q.password)
                          /\ q.response = ErrorResponse(401, "PDF_INVALID_PASSWORD")

\* An encrypted document was sent with the password '' and answered 401
\* 'PDF_PASSWORD_REQUIRED' without a call of decrypt.
C23_Witness ==
    \E r \in Slots :
        /\ req[r].doc.inspect = "encrypted"
        /\ req[r].password = ""
        /\ req[r].extraction.calls = << "PdfReader" >>
        /\ req[r].response = ErrorResponse(401, "PDF_PASSWORD_REQUIRED")

\* C24: for a document that the inspection reports as not encrypted the
\* password has no influence. Any two requests with the same document and
\* different (or absent) passwords get the same from extract_pdf_text, the
\* same text returned or the same exception type raised, and neither gets
\* PasswordRequired or InvalidPassword.
C24_PasswordNoInfluence ==
    \A r1, r2 \in Slots :
        LET p == req[r1]
            q == req[r2]
        IN  /\ Ran(p, "extract_pdf_text") /\ Ran(q, "extract_pdf_text")
            /\ p.doc = q.doc
            /\ p.doc.inspect = "plain"
            => /\ p.extraction.kind = q.extraction.kind
               /\ p.extraction.exc = q.extraction.exc
               /\ p.extraction.value = q.extraction.value
               /\ p.extraction.exc \notin
                      {"PDFPasswordRequiredError", "PDFInvalidPasswordError"}
               /\ p.response.status # 401
               /\ p.response = q.response

\* The same document, reported as plain and failing in pdfplumber with an
\* encryption error, was sent once without a password and once with the
\* password that opens it, and both extractions raised PDFExtractionError.
C24_Witness ==
    /\ req["r1"].doc = req["r2"].doc
    /\ req["r1"].doc.inspect = "plain"
    /\ req["r1"].doc.open = "encerr"
    /\ req["r1"].password = NoPassword
    /\ req["r2"].password = req["r2"].doc.key
    /\ req["r1"].extraction.exc = "PDFExtractionError"
    /\ req["r2"].extraction.exc = "PDFExtractionError"

\* The completion of q decodes to an object whose 'transactions' member is
\* there and has no length: null, a number or a boolean.
UnsizedTransactions(q) ==
    /\ HasBraceSpan(q.response_text)
    /\ LET decoded == JsonLoads(WidestSpan(q.response_text))
       IN  /\ decoded.ok
           /\ "transactions" \in DOMAIN decoded.value
           /\ decoded.value["transactions"].type \in {"null", "number", "boolean"}

====
